---- MODULE Spec2Model ----
(***************************************************************************)
(* The binary-increment Turing machine of turing_machine.py: the engine    *)
(* (TuringMachine.__init__, step, reset), the number extraction of         *)
(* test_turing_machine.py and the drivers that call them.                  *)
(*                                                                         *)
(* Python lists are 0-indexed, TLA+ sequences 1-indexed: head_position     *)
(* keeps the code's 0-based value and the cell under the head is           *)
(* tape[head_position + 1].                                                *)
(***************************************************************************)
EXTENDS Integers, Sequences, FiniteSets, TLC

VARIABLES
    \* the TuringMachine object
    tape, head_position, current_state, halted, step_count, table,
    \* the TuringMachineVisualizer object, and where its run() is
    running, paused, auto_run, vis_pc,
    \* what a driver has seen: the result of the last step() call, the last call
    \* made on the machine, the tape the run started from, the state before the
    \* last action, the number of true results since construction or reset(),
    \* the last key event, the last result of get_binary_number()
    ret, op, loaded, pre, true_returns, event, extracted

machine_vars == <<tape, head_position, current_state, halted, step_count, table>>

visualizer_vars == <<running, paused, auto_run, vis_pc>>

vars == <<tape, head_position, current_state, halted, step_count, table,
          running, paused, auto_run, vis_pc,
          ret, op, loaded, pre, true_returns, event, extracted>>

(* ------------------------------ bounds --------------------------------- *)

\* largest n of the round-trip input family (leading blank, digits of n, blanks)
MaxN == 63

\* largest number of trailing blanks of a round-trip input tape
MaxTrail == 3

\* longest tape of the exhaustive input family (every tape over the symbols)
MaxLen == 4

(* --------------------------- the machine's data ------------------------ *)

Max(a, b) == IF a >= b THEN a ELSE b

Min(a, b) == IF a <= b THEN a ELSE b

Blank == "_"

Digits == {"0", "1"}

\* the three symbols the table knows
Alphabet == {"0", "1", "_"}

\* a symbol outside the alphabet: a tape is a List[str], nothing validates it
OtherSymbol == "#"

InitialTape == <<"_", "1", "0", "1", "1", "_", "_", "_">>

\* a head that starts one cell to the left, on the leading blank
InitialHeadZero == 1 - 1

InitialHead == 1

InitialState == "start"

\* the table with the overflow entry ('carry', '_') left out
TransitionsNoOverflow ==
    (<<"start", "0">>  :> <<"start", "0", "R">>)  @@
    (<<"start", "1">>  :> <<"start", "1", "R">>)  @@
    (<<"start", "_">>  :> <<"carry", "_", "L">>)  @@
    (<<"carry", "0">>  :> <<"write1", "1", "N">>) @@
    (<<"carry", "1">>  :> <<"carry", "0", "L">>)  @@
    (<<"write1", "0">> :> <<"halt", "1", "N">>)   @@
    (<<"write1", "1">> :> <<"halt", "1", "N">>)   @@
    (<<"write1", "_">> :> <<"halt", "1", "N">>)

\* the table whose carry leaves the 1 it reads in place
TransitionsCarryKeepsOne ==
    (<<"start", "0">>  :> <<"start", "0", "R">>)  @@
    (<<"start", "1">>  :> <<"start", "1", "R">>)  @@
    (<<"start", "_">>  :> <<"carry", "_", "L">>)  @@
    (<<"carry", "0">>  :> <<"write1", "1", "N">>) @@
    (<<"carry", "1">>  :> <<"carry", "1", "L">>)  @@
    (<<"carry", "_">>  :> <<"write1", "1", "N">>) @@
    (<<"write1", "0">> :> <<"halt", "1", "N">>)   @@
    (<<"write1", "1">> :> <<"halt", "1", "N">>)   @@
    (<<"write1", "_">> :> <<"halt", "1", "N">>)

\* the table whose start state runs on to the right at a blank
TransitionsNoTurn ==
    (<<"start", "0">>  :> <<"start", "0", "R">>)  @@
    (<<"start", "1">>  :> <<"start", "1", "R">>)  @@
    (<<"start", "_">>  :> <<"start", "_", "R">>)  @@
    (<<"carry", "0">>  :> <<"write1", "1", "N">>) @@
    (<<"carry", "1">>  :> <<"carry", "0", "L">>)  @@
    (<<"carry", "_">>  :> <<"write1", "1", "N">>) @@
    (<<"write1", "0">> :> <<"halt", "1", "N">>)   @@
    (<<"write1", "1">> :> <<"halt", "1", "N">>)   @@
    (<<"write1", "_">> :> <<"halt", "1", "N">>)

transitions ==
    (<<"start", "0">>  :> <<"start", "0", "R">>)  @@
    (<<"start", "1">>  :> <<"start", "1", "R">>)  @@
    (<<"start", "_">>  :> <<"carry", "_", "L">>)  @@
    (<<"carry", "0">>  :> <<"write1", "1", "N">>) @@
    (<<"carry", "1">>  :> <<"carry", "0", "L">>)  @@
    (<<"carry", "_">>  :> <<"write1", "1", "N">>) @@
    (<<"write1", "0">> :> <<"halt", "1", "N">>)   @@
    (<<"write1", "1">> :> <<"halt", "1", "N">>)   @@
    (<<"write1", "_">> :> <<"halt", "1", "N">>)

\* the machine object: its five mutable fields
Machine(t, h, s, hl, c) ==
    [tape |-> t, head_position |-> h, current_state |-> s,
     halted |-> hl, step_count |-> c]

self == Machine(tape, head_position, current_state, halted, step_count)

Constructed == Machine(InitialTape, InitialHead, InitialState, FALSE, 0)

(* ------------------------------- step() -------------------------------- *)

\* if self.halted or self.current_state == 'halt'
AlreadyHalted(m) == m.halted \/ m.current_state = "halt"

\* current_symbol = self.tape[self.head_position]
current_symbol(m) == m.tape[m.head_position + 1]

\* key = (self.current_state, current_symbol)
Key(m) == <<m.current_state, current_symbol(m)>>

\* a halting call that is counted as a step
HaltCounts(m) == [m EXCEPT !.halted = TRUE, !.step_count = @ + 1]

\* a halting call that leaves the halted flag alone
HaltForgetsFlag(m) == m

\* self.halted = True; return False
Halt(m) == [m EXCEPT !.halted = TRUE]

\* a Left move without the clamp at index 0
MoveLeftUnclamped(h) == h - 1

\* self.head_position = max(0, self.head_position - 1)
MoveLeft(h) == Max(0, h - 1)

\* self.head_position = min(len(self.tape) - 1, self.head_position + 1)
MoveRight(h, t) == Min(Len(t) - 1, h + 1)

\* an extension made one cell too late: `>` for `>=`
ExtendStrict(h, t) == IF h > Len(t) - 1 THEN Append(t, "_") ELSE t

\* an extension that appends a digit instead of a blank
ExtendWithZero(h, t) == IF h >= Len(t) - 1 THEN Append(t, "0") ELSE t

\* an extension on every Right move
ExtendAlways(h, t) == Append(t, "_")

\* if self.head_position >= len(self.tape) - 1: self.tape.append('_')
Extend(h, t) == IF h >= Len(t) - 1 THEN Append(t, "_") ELSE t

\* a counter that goes up by two
CountTwice(c) == c + 2

\* self.step_count += 1
Count(c) == c + 1

\* a transition that counts a step only when the head is told to move
ExecuteCountsMoves(m, tr) ==
    LET new_state    == tr[1]
        write_symbol == tr[2]
        direction    == tr[3]
        written == [m.tape EXCEPT ![m.head_position + 1] = write_symbol]
        moved   == IF direction = "L" THEN MoveLeft(m.head_position)
                   ELSE IF direction = "R" THEN MoveRight(m.head_position, written)
                   ELSE m.head_position
        grown   == IF direction = "R" THEN Extend(moved, written) ELSE written
    IN  Machine(grown, moved, new_state, m.halted,
                IF direction = "N" THEN m.step_count ELSE Count(m.step_count))

\* a transition that moves the head first and writes at the cell it arrives at
ExecuteWritesAfterMove(m, tr) ==
    LET new_state    == tr[1]
        write_symbol == tr[2]
        direction    == tr[3]
        moved   == IF direction = "L" THEN MoveLeft(m.head_position)
                   ELSE IF direction = "R" THEN MoveRight(m.head_position, m.tape)
                   ELSE m.head_position
        written == [m.tape EXCEPT ![moved + 1] = write_symbol]
        grown   == IF direction = "R" THEN Extend(moved, written) ELSE written
    IN  Machine(grown, moved, new_state, m.halted, Count(m.step_count))

\* the transition found in the table, executed on the machine
Execute(m, tr) ==
    LET new_state    == tr[1]
        write_symbol == tr[2]
        direction    == tr[3]
        written == [m.tape EXCEPT ![m.head_position + 1] = write_symbol]
        moved   == IF direction = "L" THEN MoveLeft(m.head_position)
                   ELSE IF direction = "R" THEN MoveRight(m.head_position, written)
                   ELSE m.head_position
        grown   == IF direction = "R" THEN Extend(moved, written) ELSE written
    IN  Machine(grown, moved, new_state, m.halted, Count(m.step_count))

\* step(): the machine after the call and the boolean it returns
step(m) ==
    IF AlreadyHalted(m)
    THEN [m |-> Halt(m), ret |-> "False"]
    ELSE IF Key(m) \notin DOMAIN table
         THEN [m |-> Halt(m), ret |-> "False"]
         ELSE [m |-> Execute(m, table[Key(m)]), ret |-> "True"]

(* ------------------------------- reset() ------------------------------- *)

\* a reset that keeps the step counter
ResetKeepsCount(m) == Machine(InitialTape, InitialHead, InitialState, FALSE, m.step_count)

\* the five assignments of reset()
reset(m) == Machine(InitialTape, InitialHead, InitialState, FALSE, 0)

(* ------------------------- number extraction --------------------------- *)

RECURSIVE Scan(_, _, _, _)
\* the for loop of get_binary_number from cell i on
Scan(t, i, found_digit, result) ==
    IF i > Len(t) THEN result
    ELSE IF t[i] \in Digits THEN Scan(t, i + 1, TRUE, Append(result, t[i]))
    ELSE IF found_digit /\ t[i] = "_" THEN result
    ELSE Scan(t, i + 1, found_digit, result)

RECURSIVE ScanNoBreak(_, _, _, _)
\* the loop without its break: digits after the first run are collected too
ScanNoBreak(t, i, found_digit, result) ==
    IF i > Len(t) THEN result
    ELSE IF t[i] \in Digits THEN ScanNoBreak(t, i + 1, TRUE, Append(result, t[i]))
    ELSE ScanNoBreak(t, i + 1, found_digit, result)

get_binary_number_NoBreak(t) == ScanNoBreak(t, 1, FALSE, <<>>)

get_binary_number(t) == Scan(t, 1, FALSE, <<>>)

RECURSIVE int2(_)
\* int(s, 2) of a non-empty digit string
int2(s) ==
    IF Len(s) = 0 THEN 0
    ELSE 2 * int2(SubSeq(s, 1, Len(s) - 1)) + (IF s[Len(s)] = "1" THEN 1 ELSE 0)

\* int(final, 2) if final else 0
Decimal(s) == IF s = <<>> THEN 0 ELSE int2(s)

(* ------------------------------ the inputs ----------------------------- *)

RECURSIVE Bin(_)
\* the binary digits of n, most significant first; 0 is the single digit 0
Bin(n) ==
    IF n < 2 THEN <<IF n = 1 THEN "1" ELSE "0">>
    ELSE Append(Bin(n \div 2), IF n % 2 = 1 THEN "1" ELSE "0")

Blanks(k) == [i \in 1..k |-> "_"]

\* one leading blank, the digits of n, k trailing blanks
RoundTripTape(n, k) == <<"_">> \o Bin(n) \o Blanks(k)

RoundTripTapes == {RoundTripTape(n, k) : n \in 0..MaxN, k \in 1..MaxTrail}

\* test_cases of test_multiple_cases
test_cases ==
    { <<"_", "1", "_", "_", "_">>,
      <<"_", "1", "0", "_", "_", "_">>,
      <<"_", "1", "1", "_", "_", "_">>,
      <<"_", "1", "1", "1", "_", "_", "_">> }

\* every tape of 2..MaxLen cells over the alphabet and one symbol outside it
\* (head_position stays 1 when a tape is assigned, so a tape has two cells at least)
SmallTapes ==
    UNION {[1..n -> Alphabet \cup {OtherSymbol}] : n \in 2..MaxLen}

Tapes == test_cases \cup RoundTripTapes \cup SmallTapes

(* ------------------------------ the actions ---------------------------- *)

Snapshot ==
    [m |-> self, ret |-> ret, op |-> op, paused |-> paused, auto_run |-> auto_run]

Install(m) ==
    /\ tape' = m.tape
    /\ head_position' = m.head_position
    /\ current_state' = m.current_state
    /\ halted' = m.halted
    /\ step_count' = m.step_count

\* machine = TuringMachine(); TuringMachineVisualizer.__init__
Init ==
    /\ tape = Constructed.tape
    /\ head_position = Constructed.head_position
    /\ current_state = Constructed.current_state
    /\ halted = Constructed.halted
    /\ step_count = Constructed.step_count
    /\ table = transitions
    /\ running = TRUE
    /\ paused = FALSE
    /\ auto_run = TRUE
    /\ vis_pc = "run"
    /\ ret = "none"
    /\ op = "construct"
    /\ loaded = Constructed.tape
    /\ pre = [m |-> Constructed, ret |-> "none", op |-> "construct",
              paused |-> FALSE, auto_run |-> TRUE]
    /\ true_returns = 0
    /\ event = "none"
    /\ extracted = <<>>

\* a call of machine.step() and what its caller sees of it
CallStep ==
    /\ Install(step(self).m)
    /\ ret' = step(self).ret
    /\ true_returns' = IF step(self).ret = "True" THEN true_returns + 1 ELSE true_returns
    /\ op' = "step"
    /\ pre' = Snapshot
    /\ UNCHANGED <<table, loaded, extracted>>

\* a call of machine.reset()
CallReset ==
    /\ Install(reset(self))
    /\ ret' = "none"
    /\ true_returns' = 0
    /\ op' = "reset"
    /\ loaded' = reset(self).tape
    /\ pre' = Snapshot
    /\ UNCHANGED <<table, extracted>>

\* machine.tape = initial_tape.copy(), on the machine just constructed
LoadTape ==
    /\ op = "construct"
    /\ \E t \in Tapes :
          /\ Install([self EXCEPT !.tape = t])
          /\ loaded' = t
    /\ op' = "load"
    /\ pre' = Snapshot
    /\ UNCHANGED <<table, ret, true_returns, event, extracted, visualizer_vars>>

\* machine.step()
Step ==
    /\ CallStep
    /\ UNCHANGED <<event, visualizer_vars>>

\* machine.reset()
Reset ==
    /\ CallReset
    /\ UNCHANGED <<event, visualizer_vars>>

Next == LoadTape \/ Step \/ Reset

Spec == Init /\ [][Next]_vars

(* --------------------------- the drivers' loops ------------------------ *)

\* the safety limit of the test loops: `if step > 100`, `machine.step_count < 100`
StepLimit == 100

\* while machine.step() and machine.step_count < 100: the next call of the loop,
\* made unless the last call returned false or the limit has been reached
LoopStep ==
    /\ ret # "False"
    /\ ret = "none" \/ step_count < StepLimit
    /\ CallStep
    /\ UNCHANGED <<event, visualizer_vars>>

LoopNext == LoadTape \/ LoopStep

\* one test run: a machine is constructed, perhaps given a tape, and stepped by
\* the loop; the loop is sequential code, so its next call is always made
LoopSpec == Init /\ [][LoopNext]_vars /\ WF_vars(LoopStep)

(* ----------------------------- the visualizer -------------------------- *)

\* an event or an iteration that makes no call on the machine
NoCall ==
    /\ op' = "none"
    /\ pre' = Snapshot
    /\ UNCHANGED <<machine_vars, ret, true_returns, loaded, extracted>>

\* handle_events: pygame.QUIT, or KEYDOWN with K_q
KeyQ ==
    /\ vis_pc = "run"
    /\ running' = FALSE
    /\ event' = "Q"
    /\ NoCall
    /\ UNCHANGED <<paused, auto_run, vis_pc>>

\* handle_events: KEYDOWN with K_SPACE
KeySpace ==
    /\ vis_pc = "run"
    /\ IF ~halted THEN CallStep ELSE NoCall
    /\ event' = "SPACE"
    /\ UNCHANGED visualizer_vars

\* handle_events: KEYDOWN with K_r
KeyR ==
    /\ vis_pc = "run"
    /\ CallReset
    /\ paused' = FALSE
    /\ event' = "R"
    /\ UNCHANGED <<running, auto_run, vis_pc>>

\* handle_events: KEYDOWN with K_p
KeyP ==
    /\ vis_pc = "run"
    /\ paused' = ~paused
    /\ auto_run' = ~auto_run
    /\ event' = "P"
    /\ NoCall
    /\ UNCHANGED <<running, vis_pc>>

\* if self.auto_run and not self.paused and not self.machine.halted
AutoStepping == auto_run /\ ~paused

\* run(): the rest of an iteration after handle_events -- the auto-step, the
\* drawing (which changes nothing) and the test of `while self.running`
Tick ==
    /\ vis_pc = "run"
    /\ IF AutoStepping /\ ~halted THEN CallStep ELSE NoCall
    /\ event' = "tick"
    /\ vis_pc' = IF running THEN "run" ELSE "exited"
    /\ UNCHANGED <<running, paused, auto_run>>

VisNext == KeyQ \/ KeySpace \/ KeyR \/ KeyP \/ Tick

\* visualizer = TuringMachineVisualizer(); visualizer.run()
VisSpec == Init /\ [][VisNext]_vars

\* the visualizer with its loop running on: `while self.running` is sequential
\* code, so the next iteration is always made while the loop has not been left
VisFairSpec == Init /\ [][VisNext]_vars /\ WF_vars(Tick)

(* ------------------------- the extraction query ------------------------ *)

\* longest tape given to the extraction query
MaxScanLen == 6

\* every tape of up to MaxScanLen cells over the alphabet
AlphabetTapes == UNION {[1..n -> Alphabet] : n \in 0..MaxScanLen}

\* a machine whose tape has been assigned, before any call
ExtractInit ==
    /\ tape \in AlphabetTapes
    /\ head_position = Constructed.head_position
    /\ current_state = Constructed.current_state
    /\ halted = Constructed.halted
    /\ step_count = Constructed.step_count
    /\ table = transitions
    /\ running = TRUE
    /\ paused = FALSE
    /\ auto_run = TRUE
    /\ vis_pc = "run"
    /\ ret = "none"
    /\ op = "load"
    /\ loaded = tape
    /\ pre = [m |-> Constructed, ret |-> "none", op |-> "construct",
              paused |-> FALSE, auto_run |-> TRUE]
    /\ true_returns = 0
    /\ event = "none"
    /\ extracted = <<>>

\* initial = machine.get_binary_number()
Extract ==
    /\ extracted' = get_binary_number(tape)
    /\ op' = "extract"
    /\ pre' = Snapshot
    /\ UNCHANGED <<machine_vars, visualizer_vars, ret, loaded, true_returns, event>>

ExtractSpec == ExtractInit /\ [][Extract]_vars

(* ----------------------- the duplicated engines ------------------------ *)

\* test_turing_machine.py: the table built in __init__
test_transitions ==
    (<<"start", "0">>  :> <<"start", "0", "R">>)  @@
    (<<"start", "1">>  :> <<"start", "1", "R">>)  @@
    (<<"start", "_">>  :> <<"carry", "_", "L">>)  @@
    (<<"carry", "0">>  :> <<"write1", "1", "N">>) @@
    (<<"carry", "1">>  :> <<"carry", "0", "L">>)  @@
    (<<"carry", "_">>  :> <<"write1", "1", "N">>) @@
    (<<"write1", "0">> :> <<"halt", "1", "N">>)   @@
    (<<"write1", "1">> :> <<"halt", "1", "N">>)   @@
    (<<"write1", "_">> :> <<"halt", "1", "N">>)

\* test_turing_machine.py: the machine __init__ builds
test_Constructed ==
    [tape |-> <<"_", "1", "0", "1", "1", "_", "_", "_">>, head_position |-> 1,
     current_state |-> "start", halted |-> FALSE, step_count |-> 0]

\* test_turing_machine.py: step(), the machine after the call and the boolean returned
test_step(m) ==
    IF m.halted \/ m.current_state = "halt"
    THEN [m |-> [m EXCEPT !.halted = TRUE], ret |-> "False"]
    ELSE LET current_symbol_ == m.tape[m.head_position + 1]
             key == <<m.current_state, current_symbol_>>
         IN  IF key \notin DOMAIN test_transitions
             THEN [m |-> [m EXCEPT !.halted = TRUE], ret |-> "False"]
             ELSE LET new_state    == test_transitions[key][1]
                      write_symbol == test_transitions[key][2]
                      direction    == test_transitions[key][3]
                      tape1 == [m.tape EXCEPT ![m.head_position + 1] = write_symbol]
                      head1 == IF direction = "L"
                               THEN (IF m.head_position - 1 >= 0 THEN m.head_position - 1 ELSE 0)
                               ELSE IF direction = "R"
                               THEN (IF m.head_position + 1 <= Len(tape1) - 1
                                     THEN m.head_position + 1 ELSE Len(tape1) - 1)
                               ELSE m.head_position
                      tape2 == IF direction = "R" /\ head1 >= Len(tape1) - 1
                               THEN Append(tape1, "_") ELSE tape1
                  IN  [m |-> [tape |-> tape2, head_position |-> head1,
                              current_state |-> new_state, halted |-> m.halted,
                              step_count |-> m.step_count + 1],
                       ret |-> "True"]

\* demo_screenshot.py: the table built in __init__
demo_transitions ==
    (<<"start", "0">>  :> <<"start", "0", "R">>)  @@
    (<<"start", "1">>  :> <<"start", "1", "R">>)  @@
    (<<"start", "_">>  :> <<"carry", "_", "L">>)  @@
    (<<"carry", "0">>  :> <<"write1", "1", "N">>) @@
    (<<"carry", "1">>  :> <<"carry", "0", "L">>)  @@
    (<<"carry", "_">>  :> <<"write1", "1", "N">>) @@
    (<<"write1", "0">> :> <<"halt", "1", "N">>)   @@
    (<<"write1", "1">> :> <<"halt", "1", "N">>)   @@
    (<<"write1", "_">> :> <<"halt", "1", "N">>)

\* demo_screenshot.py: the machine __init__ builds
demo_Constructed ==
    [tape |-> <<"_", "1", "0", "1", "1", "_", "_", "_">>, head_position |-> 1,
     current_state |-> "start", halted |-> FALSE, step_count |-> 0]

\* demo_screenshot.py: step(), the machine after the call and the boolean returned
demo_step(m) ==
    IF m.halted \/ m.current_state = "halt"
    THEN [m |-> [m EXCEPT !.halted = TRUE], ret |-> "False"]
    ELSE LET current_symbol_ == m.tape[m.head_position + 1]
             key == <<m.current_state, current_symbol_>>
         IN  IF key \notin DOMAIN demo_transitions
             THEN [m |-> [m EXCEPT !.halted = TRUE], ret |-> "False"]
             ELSE LET new_state    == demo_transitions[key][1]
                      write_symbol == demo_transitions[key][2]
                      direction    == demo_transitions[key][3]
                      tape1 == [m.tape EXCEPT ![m.head_position + 1] = write_symbol]
                      head1 == IF direction = "L"
                               THEN (IF m.head_position - 1 >= 0 THEN m.head_position - 1 ELSE 0)
                               ELSE IF direction = "R"
                               THEN (IF m.head_position + 1 <= Len(tape1) - 1
                                     THEN m.head_position + 1 ELSE Len(tape1) - 1)
                               ELSE m.head_position
                      tape2 == IF direction = "R" /\ head1 >= Len(tape1) - 1
                               THEN Append(tape1, "_") ELSE tape1
                  IN  [m |-> [tape |-> tape2, head_position |-> head1,
                              current_state |-> new_state, halted |-> m.halted,
                              step_count |-> m.step_count + 1],
                       ret |-> "True"]

(* ------------------------------ the claims ----------------------------- *)

\* a step() call has just returned false: the caller's `while machine.step()` is over
Stopped == op = "step" /\ ret = "False"

\* the machine fields a halting call must leave alone
SameButHalted(m1, m2) ==
    /\ m1.tape = m2.tape
    /\ m1.head_position = m2.head_position
    /\ m1.current_state = m2.current_state
    /\ m1.step_count = m2.step_count

AllOnesTape == <<"_", "1", "1", "1", "_", "_", "_">>

\* C1: for every n in 0..MaxN, the run from the tape (blank, digits of n, blanks),
\* head 1, state start, once step() has returned false, leaves a tape whose
\* extracted digit run is the binary representation of n + 1.
C1_RoundTrip ==
    \A n \in 0..MaxN, k \in 1..MaxTrail :
        (loaded = RoundTripTape(n, k) /\ Stopped)
            => get_binary_number(tape) = Bin(n + 1)

\* an all-ones input (the largest n, one trailing blank) has run to its end
C1_Witness ==
    /\ loaded = RoundTripTape(MaxN, 1)
    /\ Stopped
    /\ Decimal(get_binary_number(tape)) = MaxN + 1

\* C2: the reference machine (tape _1011___, head 1, state start) driven until
\* step() returns false is in state halt with cells 1..4 = 1,1,0,0 and digit run 1100.
C2_Reference ==
    (loaded = InitialTape /\ Stopped)
        => /\ current_state = "halt"
           /\ halted
           /\ SubSeq(tape, 2, 5) = <<"1", "1", "0", "0">>
           /\ get_binary_number(tape) = <<"1", "1", "0", "0">>
           /\ Decimal(get_binary_number(tape)) = Decimal(get_binary_number(loaded)) + 1

C2_Witness ==
    /\ loaded = InitialTape
    /\ Stopped
    /\ pre.op = "step" /\ pre.ret = "True"
    /\ Decimal(get_binary_number(tape)) = 12

\* C3: in every reachable state 0 <= head_position < len(tape), so the read of
\* tape[head_position] in step() is in range.
C3_HeadInBounds ==
    /\ 0 <= head_position
    /\ head_position < Len(tape)
    /\ (head_position + 1) \in DOMAIN tape

\* a Right move took the head to the last cell and the tape was extended,
\* and a Left move was taken with the head at index 0
C3_Witness ==
    /\ op = "step" /\ ret = "True"
    /\ Len(tape) = Len(pre.m.tape) + 1
    /\ head_position = Len(pre.m.tape) - 1

C3_WitnessLeft ==
    /\ op = "step" /\ ret = "True"
    /\ pre.m.head_position = 0
    /\ transitions[Key(pre.m)][3] = "L"
    /\ head_position = 0

\* C4: a step() call made after a step() call returned false (no reset between)
\* returns false too and leaves tape, head_position, current_state, step_count as they were.
C4_HaltedIdempotent ==
    (op = "step" /\ pre.ret = "False")
        => /\ ret = "False"
           /\ SameButHalted(self, pre.m)
           /\ halted

C4_Witness ==
    /\ op = "step" /\ pre.op = "step" /\ pre.ret = "False"
    /\ ret = "False"
    /\ current_state = "halt"
    /\ step_count > 0

\* C5: after reset() the five fields are the construction-time values, whatever
\* the machine did before.
C5_ResetLaw ==
    op = "reset"
        => /\ tape = InitialTape
           /\ head_position = 1
           /\ current_state = "start"
           /\ halted = FALSE
           /\ step_count = 0
           /\ self = Constructed

\* reset() of a machine that had run to its end on another tape
C5_Witness ==
    /\ op = "reset"
    /\ pre.m.halted
    /\ pre.m.step_count > 0
    /\ pre.m.tape # InitialTape
    /\ self = Constructed

\* C6: step() on a machine that is not halted and whose (state, symbol) pair
\* is not in the table returns false, sets halted and changes nothing else.
C6_UndefinedTransition ==
    (op = "step" /\ ~AlreadyHalted(pre.m) /\ Key(pre.m) \notin DOMAIN transitions)
        => /\ ret = "False"
           /\ halted
           /\ SameButHalted(self, pre.m)

C6_Witness ==
    /\ op = "step"
    /\ ~AlreadyHalted(pre.m)
    /\ Key(pre.m) \notin DOMAIN transitions
    /\ pre.m.step_count > 0
    /\ halted

\* C7: step() returns true only when the machine continues: after a call that
\* returned true the machine is not in the terminal state and a transition can
\* follow; a call on a halted or stuck machine returns false.
C7_TrueMeansContinues ==
    /\ (op = "step" /\ ret = "True")
          => /\ current_state # "halt"
             /\ ~AlreadyHalted(self)
             /\ Key(self) \in DOMAIN transitions
    /\ (op = "step" /\ (AlreadyHalted(pre.m) \/ Key(pre.m) \notin DOMAIN transitions))
          => ret = "False"

\* C8: across a step() call the tape never shrinks and no cell changes place;
\* it grows by one cell at most, only on a Right move, and the new cell is blank.
C8_TapeGrowth ==
    op = "step"
        => LET old == pre.m.tape IN
           /\ Len(tape) >= Len(old)
           /\ Len(tape) <= Len(old) + 1
           /\ Len(tape) >= 1
           /\ \A i \in 1..Len(old) : i # pre.m.head_position + 1 => tape[i] = old[i]
           /\ Len(tape) = Len(old) + 1
                 => /\ ret = "True"
                    /\ transitions[Key(pre.m)][3] = "R"
                    /\ tape[Len(tape)] = "_"

C8_Witness ==
    /\ op = "step"
    /\ Len(tape) = Len(pre.m.tape) + 1
    /\ tape[Len(tape)] = "_"
    /\ head_position = pre.m.head_position + 1

\* C9 (as stated): the reference run ends with step_count = 7.
C9_SevenSteps ==
    (loaded = InitialTape /\ Stopped) => step_count = 7

\* C9 (amended): the reference run ends with step_count = 9 -- four Right moves,
\* the turn at the blank, two carries, and the two Stay transitions into write1 and halt.
C9_NineSteps ==
    (loaded = InitialTape /\ Stopped) => step_count = 9

C9_Witness ==
    /\ loaded = InitialTape
    /\ Stopped
    /\ current_state = "halt"
    /\ step_count = 9

\* C10 (as stated): the run from _111___ ends with digit run 1000 and the tape
\* has grown beyond its seven cells.
C10_CascadeGrows ==
    (loaded = AllOnesTape /\ Stopped)
        => /\ get_binary_number(tape) = <<"1", "0", "0", "0">>
           /\ Len(tape) > 7

\* C10 (amended): the run from _111___ ends with digit run 1000; the overflowing
\* carry is written into the leading blank at index 0 and the tape keeps its
\* seven cells throughout the run.
C10_CascadeInPlace ==
    loaded = AllOnesTape
        => /\ Len(tape) = 7
           /\ Stopped => /\ get_binary_number(tape) = <<"1", "0", "0", "0">>
                         /\ tape = <<"1", "0", "0", "0", "_", "_", "_">>
                         /\ head_position = 0

C10_Witness ==
    /\ loaded = AllOnesTape
    /\ Stopped
    /\ tape[1] = "1"
    /\ Len(tape) = 7

\* C11: step_count starts at 0, goes up by exactly 1 in a step() call that
\* returns true and stays in one that returns false, so it always equals the
\* number of true results since construction or the last reset().
C11_StepCountAccounting ==
    /\ step_count = true_returns
    /\ op \in {"construct", "reset"} => step_count = 0
    /\ (op = "step" /\ ret = "True") => step_count = pre.m.step_count + 1
    /\ (op = "step" /\ ret = "False") => step_count = pre.m.step_count
    /\ op \in {"step", "load"} => step_count >= pre.m.step_count

\* a run has ended: true results and a false result have both been counted
C11_Witness ==
    /\ Stopped
    /\ pre.ret = "True"
    /\ true_returns > 0
    /\ step_count = true_returns

\* the loop has given up: a call returned true with the limit reached
CeilingHit == op = "step" /\ ret = "True" /\ step_count >= StepLimit

\* C12: on every tape of the round-trip family the loop that calls step() until
\* it returns false ends with a false result, and the step count stays below the
\* limit of 100, so the loop never ends by the limit.
C12_Terminates ==
    /\ [](loaded \in RoundTripTapes => (~CeilingHit /\ step_count < StepLimit))
    /\ (loaded \in RoundTripTapes) ~> (Stopped /\ step_count < StepLimit)

\* the longest run of the family (all ones, the largest n) has ended under the limit
C12_Witness ==
    /\ loaded = RoundTripTape(MaxN, MaxTrail)
    /\ Stopped
    /\ step_count = 2 * Len(Bin(MaxN)) + 3
    /\ step_count < StepLimit

\* C13: the P key toggles auto-run: pressed while auto-stepping is suspended it
\* resumes it, pressed while auto-stepping is active it suspends it.
C13_PToggles ==
    event = "P"
        => /\ ~(pre.auto_run /\ ~pre.paused) => AutoStepping
           /\ (pre.auto_run /\ ~pre.paused) => ~AutoStepping

\* the last action was a step() call that executed the transition tr of the table
Executed(tr) ==
    /\ op = "step"
    /\ ~AlreadyHalted(pre.m)
    /\ Key(pre.m) \in DOMAIN table
    /\ tr = table[Key(pre.m)]

\* C14: a Left transition taken with the head at index 0 leaves the head at 0;
\* its write and its state change are applied, step_count goes up by one and
\* step() returns true.
C14_LeftClamp ==
    \A tr \in {table[k] : k \in DOMAIN table} :
        (Executed(tr) /\ tr[3] = "L" /\ pre.m.head_position = 0)
            => /\ head_position = 0
               /\ ret = "True"
               /\ tape = [pre.m.tape EXCEPT ![1] = tr[2]]
               /\ current_state = tr[1]
               /\ step_count = pre.m.step_count + 1
               /\ halted = FALSE

\* the carry has read a 1 at index 0, written 0 and stayed at index 0
C14_Witness ==
    /\ op = "step" /\ ret = "True"
    /\ pre.m.head_position = 0
    /\ pre.m.current_state = "carry"
    /\ pre.m.tape[1] = "1"
    /\ tape[1] = "0"
    /\ current_state = "carry"
    /\ head_position = 0

\* a tape that starts with a blank cell to the right of the head at index 1
HasSentinel(t) == Len(t) >= 3 /\ t[Len(t)] = "_"

\* C15: in every state reached by step() calls from a tape whose last cell is a
\* blank to the right of the head -- the reference configuration first of all --
\* head_position <= len(tape) - 2 and the last cell is blank; so the clamp of a
\* Right move never limits it and the head advances by exactly one.
C15_BlankSentinel ==
    /\ HasSentinel(InitialTape)
    /\ HasSentinel(loaded)
          => /\ head_position <= Len(tape) - 2
             /\ tape[Len(tape)] = "_"
             /\ \A tr \in {table[k] : k \in DOMAIN table} :
                   (Executed(tr) /\ tr[3] = "R")
                       => /\ pre.m.head_position + 1 <= Len(pre.m.tape) - 1
                          /\ head_position = pre.m.head_position + 1

\* the reference run has made its last Right move, to the first trailing blank
C15_Witness ==
    /\ loaded = InitialTape
    /\ op = "step" /\ ret = "True"
    /\ pre.m.current_state = "start"
    /\ pre.m.head_position = 4
    /\ head_position = 5
    /\ tape[Len(tape)] = "_"

\* C16: a step() call that returns true changes no cell the tape had before
\* the call but the one under the head before the move; the transition table is
\* the one built at construction after every step() and reset().
C16_Frame ==
    /\ table = transitions
    /\ (op = "step" /\ ret = "True")
          => /\ Len(tape) >= Len(pre.m.tape)
             /\ \A i \in 1..Len(pre.m.tape) :
                   tape[i] # pre.m.tape[i] => i = pre.m.head_position + 1

\* a carry step: the cell under the head has changed and the head has moved away
C16_Witness ==
    /\ op = "step" /\ ret = "True"
    /\ tape[pre.m.head_position + 1] # pre.m.tape[pre.m.head_position + 1]
    /\ head_position = pre.m.head_position - 1
    /\ table = transitions

\* the leftmost maximal contiguous run of digits of t, empty when t has no digit
DigitRun(t) ==
    IF \A i \in 1..Len(t) : t[i] \notin Digits THEN <<>>
    ELSE LET first == CHOOSE i \in 1..Len(t) :
                         /\ t[i] \in Digits
                         /\ \A j \in 1..(i - 1) : t[j] \notin Digits
             last  == CHOOSE j \in first..Len(t) :
                         /\ \A k \in first..j : t[k] \in Digits
                         /\ j = Len(t) \/ t[j + 1] \notin Digits
         IN  SubSeq(t, first, last)

\* C17: for every tape over {0,1,_} get_binary_number() returns the leftmost
\* maximal contiguous run of digits: leading blanks are skipped, the first blank
\* after a digit ends the run, later digits are ignored, no digit gives the empty run.
C17_Extraction ==
    op = "extract"
        => /\ extracted = DigitRun(tape)
           /\ (\A i \in 1..Len(tape) : tape[i] = "_") => extracted = <<>>

\* blanks, a run, a blank and a later digit: the run alone is returned
C17_Witness ==
    /\ op = "extract"
    /\ tape = <<"_", "_", "1", "0", "_", "1">>
    /\ extracted = <<"1", "0">>

\* every cell of t is one of the three symbols of the table
OverAlphabet(t) == \A i \in 1..Len(t) : t[i] \in Alphabet

\* C18: the table has an entry for every pair of a state in {start, carry, write1}
\* and a symbol in {0,1,_}; so on a tape over the alphabet the lookup of step()
\* never misses, and whenever halted is true the state is halt.
C18_NoStuckHalt ==
    /\ \A s \in {"start", "carry", "write1"}, a \in Alphabet : <<s, a>> \in DOMAIN table
    /\ OverAlphabet(loaded)
          => /\ OverAlphabet(tape)
             /\ current_state \in {"start", "carry", "write1", "halt"}
             /\ ~AlreadyHalted(self) => Key(self) \in DOMAIN table
             /\ (op = "step" /\ ret = "False") => AlreadyHalted(pre.m)
             /\ halted => current_state = "halt"

\* a run on an assigned tape over the alphabet has ended with halted set
C18_Witness ==
    /\ loaded \in SmallTapes
    /\ OverAlphabet(loaded)
    /\ Stopped
    /\ halted
    /\ current_state = "halt"
    /\ pre.m.halted = FALSE

\* C19: the TuringMachine classes of test_turing_machine.py and
\* demo_screenshot.py are constructed in the configuration of the shipped one
\* and, from every state the shipped engine reaches, their step() returns the
\* same boolean and gives the same five fields; so for every sequence of step()
\* calls the three engines pass through the same states.
C19_EnginesAgree ==
    /\ test_Constructed = Constructed
    /\ demo_Constructed = Constructed
    /\ test_transitions = table
    /\ demo_transitions = table
    /\ test_step(self) = step(self)
    /\ demo_step(self) = step(self)

\* a run that extended the tape has ended: on the state before the last call
\* the copies return false and give the fields the engine has now
C19_Witness ==
    /\ Stopped
    /\ pre.ret = "True"
    /\ Len(tape) > Len(loaded)
    /\ test_step(pre.m).ret = "False"
    /\ demo_step(pre.m).m = self

\* a blank at index 0 followed by at least one digit
WellFormed(t) == Len(t) >= 2 /\ t[1] = "_" /\ t[2] \in Digits

\* C20: on a run from a tape with a blank at index 0 followed by a digit (head 1,
\* state start) every Left move is taken from an index >= 1 and moves the head
\* by one, and the carry that arrives at index 0 finds the leading blank there
\* and writes the overflow 1 into it.
C20_NoLeftClamp ==
    WellFormed(loaded)
        => /\ \A tr \in {table[k] : k \in DOMAIN table} :
                 (Executed(tr) /\ tr[3] = "L")
                     => /\ pre.m.head_position >= 1
                        /\ head_position = pre.m.head_position - 1
           /\ (op = "step" /\ ret = "True" /\ pre.m.head_position = 0)
                 => /\ pre.m.current_state \in {"carry", "write1"}
                    /\ pre.m.current_state = "carry"
                          => /\ pre.m.tape[1] = "_"
                             /\ tape[1] = "1"
                             /\ head_position = 0
           /\ tape[1] \in {"_", "1"}

\* the carry of 11 + 1 has reached index 0 by a move from index 1 and written the 1
C20_Witness ==
    /\ loaded = <<"_", "1", "1", "_", "_", "_">>
    /\ op = "step" /\ ret = "True"
    /\ pre.m.current_state = "carry"
    /\ pre.m.head_position = 0
    /\ tape[1] = "1"

\* auto-stepping was active in the state before the last action
WasAutoStepping == pre.auto_run /\ ~pre.paused

\* the machine in its halted display state
HaltedDisplay == halted /\ current_state = "halt"

\* what an iteration of the run loop and a SPACE key do to the machine, and
\* what keeps the machine halted
C21_LoopCalls ==
    \* an iteration with auto-run active and halted false makes one step() call
    /\ (event = "tick" /\ WasAutoStepping /\ ~pre.m.halted)
          => /\ op = "step"
             /\ self = step(pre.m).m
             /\ ret = step(pre.m).ret
    \* on a halted machine neither the loop nor SPACE calls step()
    /\ (event \in {"tick", "SPACE"} /\ pre.m.halted)
          => /\ op = "none"
             /\ self = pre.m
    \* only R takes the machine out of the halted state
    /\ (pre.m.halted /\ event # "R" /\ event # "none") => halted
    /\ halted => current_state = "halt"

\* C21: while auto-run is active and halted is false every iteration of the run
\* loop calls step() once; when the key presses have ended with auto-run active
\* and the loop running, the machine comes to halted = true in state halt and
\* stays there; on a halted machine neither the loop nor the SPACE key calls
\* step(), until R resets the machine.
C21_AutoRunHalts ==
    /\ []C21_LoopCalls
    /\ (<>[][Tick]_vars /\ <>[](AutoStepping /\ running))
          => <>[]HaltedDisplay

\* auto-run has run the reference machine to the end, and an iteration of the
\* loop has left the halted machine alone
C21_Witness ==
    /\ event = "tick"
    /\ AutoStepping /\ WasAutoStepping /\ running
    /\ pre.m.halted
    /\ HaltedDisplay
    /\ op = "none"
    /\ step_count = 9
    /\ tape = <<"_", "1", "1", "0", "0", "_", "_", "_">>

====
